---------------------------- MODULE Spec2Model ----------------------------
(***************************************************************************)
(* State-machine model of the CSV editor: CsvManager (the record store and *)
(* its persistence calls), DataTable (diff, filter, sort, paginate, edit)  *)
(* and the load pipeline of CsvUpload.                                     *)
(*                                                                         *)
(* A cell value is a JavaScript string, modelled as a sequence of          *)
(* one-character strings.  A record (CsvRecord) is a sequence of           *)
(* [key, value] pairs in key-insertion order.  A row of a table is a       *)
(* record together with the identity of the JavaScript object holding it,  *)
(* [id, rec]: `===` on rows compares the id.                               *)
(***************************************************************************)
EXTENDS Integers, Sequences, FiniteSets, TLC

(***************************************************************************)
(* Bounds of the model.                                                    *)
(***************************************************************************)
\* committed edits in one behaviour of Spec
MaxEdits == 2
\* committed edits in one behaviour of SpecPaged
MaxPagedEdits == 1
\* file loads in one behaviour
MaxLoads == 1
\* IndexedDB requests in flight at once
MaxPending == 1
\* rows of the large input file (more than one page)
BigRows == 51

\* DataTable.tsx:17
ITEMS_PER_PAGE == 50

(***************************************************************************)
(* Strings.                                                                *)
(***************************************************************************)
\* The characters that occur in the modelled files, edits and search terms.
\* No sign, dot or exponent letter occurs, so a number is a run of digits.
DigitChars == {"0", "1", "2", "3", "4", "5", "6", "7", "8", "9"}
LowerChars == {"a", "b"}
UpperChars == {"A", "B"}
SpaceChars == {" "}
Chars == DigitChars \cup LowerChars \cup UpperChars \cup SpaceChars

\* The value of a missing key (row[field] of a key the object lacks).
Undefined == <<"undefined">>

Min(a, b) == IF a <= b THEN a ELSE b
Max(a, b) == IF a >= b THEN a ELSE b
Sign(n) == IF n < 0 THEN -1 ELSE IF n > 0 THEN 1 ELSE 0

DigitVal(c) ==
    CASE c = "0" -> 0 [] c = "1" -> 1 [] c = "2" -> 2 [] c = "3" -> 3
      [] c = "4" -> 4 [] c = "5" -> 5 [] c = "6" -> 6 [] c = "7" -> 7
      [] c = "8" -> 8 [] c = "9" -> 9

\* String.prototype.toLowerCase, character by character
LowerChar(c) ==
    CASE c = "A" -> "a" [] c = "B" -> "b" [] OTHER -> c

ToLowerCase(s) == [i \in 1..Len(s) |-> LowerChar(s[i])]

\* String.prototype.includes
Includes(s, t) ==
    \E i \in 0..(Len(s) - Len(t)) : SubSeq(s, i + 1, i + Len(t)) = t

\* String.prototype.trim
Trim(s) ==
    LET nonSp == {i \in 1..Len(s) : s[i] \notin SpaceChars}
    IN  IF nonSp = {} THEN <<>>
        ELSE SubSeq(s, CHOOSE i \in nonSp : \A j \in nonSp : i <= j,
                       CHOOSE i \in nonSp : \A j \in nonSp : i >= j)

\* String(value || ''): a missing or empty value gives the empty string
Str(v) == IF v = Undefined \/ v = <<>> THEN <<>> ELSE v

\* parseFloat: skips leading white space, then reads the longest numeric
\* prefix; NaN when that prefix is empty.  NaN is modelled as -1 (every
\* number of the alphabet is non-negative).
NaN == 0 - 1
RECURSIVE DecVal(_)
DecVal(ds) ==
    IF ds = <<>> THEN 0 ELSE 10 * DecVal(SubSeq(ds, 1, Len(ds) - 1)) + DigitVal(ds[Len(ds)])

LeadingSpaces(s) ==
    LET stop == {i \in 1..Len(s) : s[i] \notin SpaceChars}
    IN  IF stop = {} THEN Len(s) ELSE (CHOOSE i \in stop : \A j \in stop : i <= j) - 1

DigitPrefixLen(s) ==
    LET stop == {i \in 1..Len(s) : s[i] \notin DigitChars}
    IN  IF stop = {} THEN Len(s) ELSE (CHOOSE i \in stop : \A j \in stop : i <= j) - 1

parseFloat(s) ==
    LET t == SubSeq(s, LeadingSpaces(s) + 1, Len(s))
        k == DigitPrefixLen(t)
    IN  IF k = 0 THEN NaN ELSE DecVal(SubSeq(t, 1, k))

isNaN(n) == n = NaN

\* String.prototype.localeCompare in the default collation: white space
\* before digits before letters, letters first without regard to case,
\* and on a tie the lower-case letter first.
PrimaryKey(c) ==
    CASE c \in SpaceChars -> 0
      [] c \in DigitChars -> 1 + DigitVal(c)
      [] LowerChar(c) = "a" -> 11
      [] LowerChar(c) = "b" -> 12

CaseKey(c) == IF c \in UpperChars THEN 1 ELSE 0

\* lexicographic comparison of two sequences of numbers
LexCompare(x, y) ==
    LET n == Min(Len(x), Len(y))
        diff == {i \in 1..n : x[i] # y[i]}
    IN  IF diff = {} THEN Sign(Len(x) - Len(y))
        ELSE LET d == CHOOSE i \in diff : \A j \in diff : i <= j
             IN  Sign(x[d] - y[d])

localeCompare(a, b) ==
    LET p == LexCompare([i \in 1..Len(a) |-> PrimaryKey(a[i])],
                        [i \in 1..Len(b) |-> PrimaryKey(b[i])])
    IN  IF p # 0 THEN p
        ELSE LexCompare([i \in 1..Len(a) |-> CaseKey(a[i])],
                        [i \in 1..Len(b) |-> CaseKey(b[i])])

(***************************************************************************)
(* Records (CsvRecord): key/value pairs in insertion order.                *)
(***************************************************************************)
\* Object.keys(rec)
Keys(rec) == [i \in 1..Len(rec) |-> rec[i].key]
KeySet(rec) == {rec[i].key : i \in 1..Len(rec)}
\* Object.values(rec)
Values(rec) == [i \in 1..Len(rec) |-> rec[i].value]

\* rec[field]
Get(rec, field) ==
    IF field \in KeySet(rec)
    THEN rec[CHOOSE i \in 1..Len(rec) : rec[i].key = field].value
    ELSE Undefined

\* Put without the spread of the old record: { [field]: value }
PutAlone(rec, field, value) == <<[key |-> field, value |-> value]>>

\* { ...rec, [field]: value }: an existing key keeps its place, a new key
\* goes last
Put(rec, field, value) ==
    IF field \in KeySet(rec)
    THEN [i \in 1..Len(rec) |->
            IF rec[i].key = field THEN [key |-> field, value |-> value] ELSE rec[i]]
    ELSE Append(rec, [key |-> field, value |-> value])

(***************************************************************************)
(* Tables.  A row is [id, rec]: the identity of the row object and its     *)
(* record.  Indexes are 1-based here (0-based in the code); "no index"     *)
(* (-1 in the code) is 0.                                                  *)
(***************************************************************************)
Null == "null"
\* null where a table or a file is expected
NoData == [none |-> TRUE]

Ids(rows) == {rows[i].id : i \in 1..Len(rows)}
Recs(rows) == [i \in 1..Len(rows) |-> rows[i].rec]

\* n objects created at once: the n smallest identities not in `used`
FreshIds(used, n) ==
    LET free == (1..(Cardinality(used) + n)) \ used
    IN  [i \in 1..n |-> CHOOSE k \in free : Cardinality({j \in free : j < k}) = i - 1]

\* the row objects built from a sequence of records
NewRows(recs, used) ==
    LET ids == FreshIds(used, Len(recs))
    IN  [i \in 1..Len(recs) |-> [id |-> ids[i], rec |-> recs[i]]]

\* JsonClone as a shallow copy, [...rows]: the same row objects
JsonCloneShallow(rows, used) == rows

\* JSON.parse(JSON.stringify(rows)): new objects, and every key whose value
\* is a string survives with that string (a record here holds only strings)
JsonClone(rows, used) == NewRows(Recs(rows), used)

\* the structured clone IndexedDB stores: the values without the identities
StoredForm(d) ==
    [headers |-> d.headers, rows |-> Recs(d.rows), originalRows |-> Recs(d.originalRows)]

\* the objects a read from IndexedDB builds
FromStored(s) ==
    LET rows == NewRows(s.rows, {})
    IN  [headers |-> s.headers, rows |-> rows,
         originalRows |-> NewRows(s.originalRows, Ids(rows))]

(***************************************************************************)
(* DataTable: the derived values of one render.                            *)
(***************************************************************************)
\* DataTable.tsx:33-35
headers(data) == IF Len(data) > 0 THEN Keys(data[1].rec) ELSE <<>>

\* modifiedCells comparing the raw values, row[field] !== originalRow[field]
modifiedCellsRaw(data, originalData) ==
    UNION {{[rowIndex |-> i, field |-> f,
             originalValue |-> Get(originalData[i].rec, f),
             newValue |-> Get(data[i].rec, f)] :
               f \in {g \in KeySet(data[i].rec) :
                        Get(data[i].rec, g) # Get(originalData[i].rec, g)}} :
           i \in {j \in 1..Len(data) : j <= Len(originalData)}}

\* DataTable.tsx:38-56.  The array the code builds has no duplicates, so it
\* is modelled as a set.
modifiedCells(data, originalData) ==
    UNION {{[rowIndex |-> i, field |-> f,
             originalValue |-> Get(originalData[i].rec, f),
             newValue |-> Get(data[i].rec, f)] :
               f \in {g \in KeySet(data[i].rec) :
                        Str(Get(data[i].rec, g)) # Str(Get(originalData[i].rec, g))}} :
           i \in {j \in 1..Len(data) : j <= Len(originalData)}}

\* rowMatches without the toLowerCase of the search term
rowMatchesTermAsTyped(row, term) ==
    \E i \in 1..Len(row.rec) :
        Includes(ToLowerCase(Str(Values(row.rec)[i])), term)

\* DataTable.tsx:60-64
rowMatches(row, term) ==
    \E i \in 1..Len(row.rec) :
        Includes(ToLowerCase(Str(Values(row.rec)[i])), ToLowerCase(term))

filterRows(data, term) == SelectSeq(data, LAMBDA row : rowMatches(row, term))

\* DataTable.tsx:67-81, the comparator of the sort
compareRows(a, b, cfg) ==
    LET aValue == Str(Get(a.rec, cfg.field))
        bValue == Str(Get(b.rec, cfg.field))
        aNum == parseFloat(aValue)
        bNum == parseFloat(bValue)
        comparison == localeCompare(aValue, bValue)
    IN  IF ~isNaN(aNum) /\ ~isNaN(bNum)
        THEN (IF cfg.direction = "asc" THEN aNum - bNum ELSE bNum - aNum)
        ELSE (IF cfg.direction = "asc" THEN comparison ELSE 0 - comparison)

\* Array.prototype.sort with that comparator: a stable sort, built by
\* inserting each row after the last row that does not compare greater.
\* insertAfter is the index of that row (0 when every row compares
\* greater), found from the right.
insertAfter(front, x, cfg) ==
    LET n == Len(front)
        stop(k) == k = n \/ compareRows(front[n - k], x, cfg) <= 0
    IN  n - (CHOOSE k \in 0..n : stop(k) /\ \A m \in 0..(k - 1) : ~stop(m))

\* the rows from the k-th on inserted one by one into `sorted`
RECURSIVE insertFrom(_, _, _, _)
insertFrom(sorted, rows, k, cfg) ==
    IF k > Len(rows) THEN sorted
    ELSE LET pos == insertAfter(sorted, rows[k], cfg)
             next == SubSeq(sorted, 1, pos) \o <<rows[k]>> \o SubSeq(sorted, pos + 1, Len(sorted))
         IN  IF Len(next) = k THEN insertFrom(next, rows, k + 1, cfg) ELSE next

sortRows(rows, cfg) == insertFrom(<<>>, rows, 1, cfg)

\* DataTable.tsx:59-85
filteredAndSortedData(data, term, cfg) ==
    LET filtered == filterRows(data, term)
    IN  IF cfg.field # Null THEN sortRows(filtered, cfg) ELSE filtered

\* DataTable.tsx:88, Math.ceil(length / ITEMS_PER_PAGE)
totalPages(view) == (Len(view) + ITEMS_PER_PAGE - 1) \div ITEMS_PER_PAGE

\* paginatedData with the end index of the slice taken as inclusive
paginatedDataInclusive(view, page) ==
    SubSeq(view, (page - 1) * ITEMS_PER_PAGE + 1, Min(page * ITEMS_PER_PAGE + 1, Len(view)))

\* DataTable.tsx:89-92, Array.prototype.slice
paginatedData(view, page) ==
    SubSeq(view, (page - 1) * ITEMS_PER_PAGE + 1, Min(page * ITEMS_PER_PAGE, Len(view)))

\* data.findIndex(d => d === x), x being view[rowIndex] (undefined when the
\* index is out of range)
findIndex(data, view, rowIndex) ==
    IF rowIndex \notin 1..Len(view) THEN 0
    ELSE LET hit == {i \in 1..Len(data) : data[i].id = view[rowIndex].id}
         IN  IF hit = {} THEN 0 ELSE CHOOSE i \in hit : \A j \in hit : i <= j

\* editedData pushing the new row instead of replacing the old one
editedDataPushed(data, actualIndex, field, value, used) ==
    Append(data, [id |-> FreshIds(used, 1)[1],
                  rec |-> Put(data[actualIndex].rec, field, value)])

\* DataTable.tsx:108-109: the array handed to onDataChange.  `used` holds
\* the identities of the objects that exist when the new row is created.
editedData(data, actualIndex, field, value, used) ==
    [data EXCEPT ![actualIndex] =
        [id |-> FreshIds(used, 1)[1],
         rec |-> Put(data[actualIndex].rec, field, value)]]

\* DataTable.tsx:119-124
isCellModified(data, originalData, view, rowIndex, field) ==
    LET actualIndex == findIndex(data, view, rowIndex)
    IN  \E cell \in modifiedCells(data, originalData) :
            cell.rowIndex = actualIndex /\ cell.field = field

(***************************************************************************)
(* Papa.unparse of an array of objects, with its default configuration:    *)
(* the columns are the keys of the first object, a missing value is the    *)
(* empty string, a value is quoted when it holds the delimiter or starts   *)
(* or ends with a space (no value of the alphabet holds a quote or a line  *)
(* break), the fields are joined by "," and the lines by "\r\n".           *)
(***************************************************************************)
Delimiter == ","
Newline == "\r\n"
QuoteChar == "\""

RECURSIVE Join(_, _)
Join(parts, sep) ==
    IF Len(parts) = 0 THEN <<>>
    ELSE IF Len(parts) = 1 THEN parts[1]
    ELSE parts[1] \o <<sep>> \o Join(Tail(parts), sep)

Quoted(v) ==
    IF v # <<>> /\ (v[1] = " " \/ v[Len(v)] = " " \/ \E i \in 1..Len(v) : v[i] = Delimiter)
    THEN <<QuoteChar>> \o v \o <<QuoteChar>>
    ELSE v

\* one line of the file: the fields quoted and joined
CsvLine(fields) == Join([k \in 1..Len(fields) |-> Quoted(fields[k])], Delimiter)

\* a header name is one element of the text
unparse(rows) ==
    IF Len(rows) = 0 THEN <<>>
    ELSE LET fields == Keys(rows[1].rec)
             line(i) == CsvLine([k \in 1..Len(fields) |-> Str(Get(rows[i].rec, fields[k]))])
         IN  Join(<<CsvLine([k \in 1..Len(fields) |-> <<fields[k]>>])>>
                    \o [i \in 1..Len(rows) |-> line(i)], Newline)

(***************************************************************************)
(* Inputs: the parsed files the user drops, the values typed into a cell   *)
(* and the search terms typed into the search box.                         *)
(***************************************************************************)
Cell(k, v) == [key |-> k, value |-> v]
Book(id, title) == <<Cell("id", id), Cell("title", title)>>

BookHeaders == <<"id", "title">>

\* A dropped file: the end of its name, its MIME type, whether it is larger
\* than 100MB, whether the browser can read it, and what Papa.parse makes of
\* its text (the header fields and one record per line that is not empty).
CsvFile(hs, rs) ==
    [ext |-> ".csv", type |-> "text/csv", big |-> FALSE, readable |-> TRUE,
     headers |-> hs, rows |-> rs]

\* three data rows: two of them equal, one short of a field; and a blank
\* row between them
FileBooks ==
    CsvFile(BookHeaders,
            <<Book(<<"5">>, <<"a", "B">>), Book(<<" ">>, <<>>),
              Book(<<"5">>, <<"a", "B">>), <<Cell("id", <<"1", "2", "a">>)>>>>)

\* more rows than one page holds
FileBig ==
    CsvFile(BookHeaders,
            [i \in 1..BigRows |->
                 IF i < BigRows THEN Book(<<"5">>, <<"a">>)
                 ELSE Book(<<"1", "5">>, <<"b">>)])

\* a file whose first data row is short of a field
FileRagged ==
    CsvFile(BookHeaders,
            << <<Cell("id", <<"5">>)>>, Book(<<"1", "2", "a">>, <<"a", "B">>) >>)

\* a header line only
FileNoRows == CsvFile(BookHeaders, <<>>)

\* an empty file
FileEmpty == CsvFile(<<>>, <<>>)

\* a header line and blank rows only
FileBlankRows == CsvFile(BookHeaders, <<Book(<<" ">>, <<>>), Book(<<>>, <<" ", " ">>)>>)

\* a file the browser fails to read
FileUnreadable == [FileBooks EXCEPT !.readable = FALSE]

\* a file of more than 100MB
FileHuge == [FileBooks EXCEPT !.big = TRUE]

\* a text file that is no CSV file: notes.txt, text/plain
FileText == [FileBooks EXCEPT !.ext = ".txt", !.type = "text/plain"]

\* a CSV file named in capitals, as Windows gives it: DATA.CSV,
\* application/vnd.ms-excel
FileUpperCase == [FileBooks EXCEPT !.ext = ".CSV", !.type = "application/vnd.ms-excel"]

FailingFiles == {FileNoRows, FileEmpty, FileBlankRows, FileUnreadable, FileHuge,
                 FileText, FileUpperCase}

Files == {FileBooks} \cup FailingFiles

EditValues == {<<>>, <<"5">>}

SearchTerms == {<<>>, <<"A", "b">>}

\* the terms typed over the large file: one of them matches every row
PagedSearchTerms == SearchTerms \cup {<<"5">>}

\* the positions on the displayed page the user edits
EditPositions == {1, 2}

(***************************************************************************)
(* State.                                                                  *)
(***************************************************************************)
VARIABLES
    csvData,      \* CsvManager: NoData or [headers, rows, originalRows]
    error,        \* CsvManager: Null or the message shown
    isLoading,    \* CsvManager: the loading flag (the upload zone is disabled while set)
    upload,       \* CsvUpload: the file processFile is working on, or NoData
    restorePc,    \* restoreData: "check", "load" or "done"
    loadSave,     \* handleDataLoaded: the table its delayed saveData will store, or NoData
    currentPage,  \* DataTable
    searchTerm,   \* DataTable
    sortConfig,   \* DataTable: [field, direction]
    stored,       \* the IndexedDB slot: NoData or a stored table
    pending,      \* the IndexedDB requests issued and not yet completed, oldest first
    editsLeft,    \* the edits the user still commits (bounds the model)
    loadsLeft,    \* the files the user still drops (bounds the model)
    lastChange,   \* the last operation that set csvData ("early edit": an edit
                  \* committed before the saveData of handleDataLoaded was issued)
    download,     \* the last download: NoData, or [csv |-> the text of the file]
    isOnline,     \* useCsvPersistence: the online flag of the current render
    now,          \* Date.now(), in milliseconds
    loadOnline,   \* the isOnline of the render whose handleDataLoaded the load holds
    storedInfo    \* the IndexedDB slot: NoData or [timestamp, online] of the entry, and
                  \* savedOnline, the online flag when its saveData was called

managerVars == <<csvData, error, isLoading, restorePc, loadSave>>
viewVars == <<currentPage, searchTerm, sortConfig>>
storeVars == <<stored, storedInfo, pending>>
netVars == <<isOnline, now, loadOnline>>
countVars == <<editsLeft, loadsLeft>>
vars == <<csvData, error, isLoading, upload, restorePc, loadSave, currentPage, searchTerm,
          sortConfig, stored, pending, editsLeft, loadsLeft, lastChange, download,
          isOnline, now, loadOnline, storedInfo>>

\* DataTable.tsx:26-28, the state of a newly mounted DataTable
InitialSort == [field |-> Null, direction |-> "asc"]
MountTable ==
    /\ currentPage' = 1
    /\ searchTerm' = <<>>
    /\ sortConfig' = InitialSort

\* the values of the current render of DataTable
data == csvData.rows
originalData == csvData.originalRows
view == filteredAndSortedData(data, searchTerm, sortConfig)
page == paginatedData(view, currentPage)
TableShown == csvData # NoData

\* DataTable.tsx:365
EXPIRY_MINUTES == 10

\* DataTable.tsx:402-406, the timestamp and the flag saveData stores with the
\* table: online is the isOnline of the render that made this saveData
\* (its dependency, line 414); savedOnline records the flag at the call
StoredInfo(online) == [timestamp |-> now, online |-> online, savedOnline |-> isOnline]

\* the entry of a table saved online at time 0
SavedAtStart == [timestamp |-> 0, online |-> TRUE, savedOnline |-> TRUE]

\* the application is opened for the first time: nothing stored, and
\* restoreData (part_001:64-69) has set the loading flag
Init ==
    /\ csvData = NoData
    /\ error = Null
    /\ isLoading = TRUE
    /\ upload = NoData
    /\ restorePc = "check"
    /\ loadSave = NoData
    /\ currentPage = 1
    /\ searchTerm = <<>>
    /\ sortConfig = InitialSort
    /\ stored = NoData
    /\ storedInfo = NoData
    /\ pending = <<>>
    /\ editsLeft = MaxEdits
    /\ loadsLeft = MaxLoads
    /\ lastChange = "none"
    /\ download = NoData
    /\ isOnline = TRUE
    /\ now = 0
    /\ loadOnline = TRUE

(***************************************************************************)
(* CsvUpload: from the dropped file to onDataLoaded.                       *)
(***************************************************************************)
\* isValidRow without the trim: value && String(value)
isValidRowUntrimmed(rec) ==
    \E i \in 1..Len(rec) : rec[i].value # <<>>

\* CsvUpload.tsx:171-173 and 247-249, the rows with a non-blank value
isValidRow(rec) ==
    \E i \in 1..Len(rec) : rec[i].value # <<>> /\ Trim(rec[i].value) # <<>>

\* CsvUpload.tsx:221-292, processData applied to the rows the chunks kept:
\* the table handed to onDataLoaded, or the message of the error
processData(file) ==
    LET allRows == SelectSeq(file.rows, isValidRow)
        validRows == NewRows(SelectSeq(allRows, isValidRow), {})
    IN  IF Len(file.headers) = 0 THEN [error |-> "No column headers found."]
        ELSE IF Len(allRows) = 0 THEN [error |-> "CSV has no data rows."]
        ELSE [error |-> Null,
              csvData |-> [headers |-> file.headers,
                           rows |-> validRows,
                           originalRows |-> JsonClone(validRows, Ids(validRows))]]

\* react-dropzone with accept: { 'text/csv': ['.csv'] } (CsvUpload.tsx:317-322)
\* hands onDrop the files whose type is text/csv or whose name, in lower
\* case, ends in .csv; the others are rejected and onDrop gets none
LowerExt(ext) == IF ext = ".CSV" THEN ".csv" ELSE ext
acceptedFiles(file) ==
    IF file.type = "text/csv" \/ LowerExt(file.ext) = ".csv" THEN <<file>> ELSE <<>>

\* CsvUpload.tsx:296-315, a file is dropped on the upload zone (disabled
\* while isLoading); processFile (95-106) clears the error and sets the
\* loading flag.  The processFile called holds the onDataLoaded of the
\* current render (its dependency, line 294), and that handleDataLoaded the
\* saveData of the current render, with the current isOnline.
onDrop(file) ==
    /\ ~TableShown
    /\ ~isLoading
    /\ loadsLeft > 0
    /\ loadsLeft' = loadsLeft - 1
    /\ IF Len(acceptedFiles(file)) = 0
       THEN UNCHANGED <<error, isLoading, upload, loadOnline>>
       ELSE IF file.type # "text/csv" /\ file.ext # ".csv"
       THEN /\ error' = "Please upload a valid CSV file (.csv only)."
            /\ UNCHANGED <<isLoading, upload, loadOnline>>
       ELSE IF file.big
       THEN /\ error' = "File size too large. Please upload under 100MB."
            /\ UNCHANGED <<isLoading, upload, loadOnline>>
       ELSE /\ error' = Null
            /\ isLoading' = TRUE
            /\ upload' = file
            /\ loadOnline' = isOnline
    /\ UNCHANGED <<csvData, restorePc, loadSave, viewVars, storeVars, editsLeft,
                   lastChange, download, isOnline, now>>

\* processFile without the onLoadingChange(false) of the error callback and
\* of the catch: a load that fails leaves the loading flag set
processFileKeepsLoading ==
    /\ upload # NoData
    /\ upload' = NoData
    /\ LET r == IF upload.readable THEN processData(upload)
                ELSE [error |-> "Error parsing CSV"]
       IN  IF r.error # Null
           THEN /\ error' = r.error
                /\ UNCHANGED <<csvData, isLoading, loadSave, viewVars, lastChange>>
           ELSE /\ csvData' = r.csvData
                /\ isLoading' = FALSE
                /\ loadSave' = StoredForm(r.csvData)
                /\ lastChange' = "load"
                /\ MountTable
                /\ UNCHANGED error
    /\ UNCHANGED <<restorePc, storeVars, countVars, download, netVars>>

\* CsvUpload.tsx:138-292, the file has been read, parsed and processed: the
\* error callback of Papa.parse (210-217), the catch of processData
\* (284-290), or onDataLoaded and onLoadingChange(false) (271-272), where
\* handleDataLoaded (part_001:134-141) shows the table and leaves its
\* saveData to the timers
processFile ==
    /\ upload # NoData
    /\ upload' = NoData
    /\ isLoading' = FALSE
    /\ LET r == IF upload.readable THEN processData(upload)
                ELSE [error |-> "Error parsing CSV"]
       IN  IF r.error # Null
           THEN /\ error' = r.error
                /\ UNCHANGED <<csvData, loadSave, viewVars, lastChange>>
           ELSE /\ csvData' = r.csvData
                /\ loadSave' = StoredForm(r.csvData)
                /\ lastChange' = "load"
                /\ MountTable
                /\ UNCHANGED error
    /\ UNCHANGED <<restorePc, storeVars, countVars, download, netVars>>

\* part_001:144-155, the timers of handleDataLoaded have run: saveData(data)
IssueLoadSave ==
    /\ loadSave # NoData
    /\ Len(pending) < MaxPending
    /\ pending' = Append(pending, [op |-> "put", data |-> loadSave, load |-> TRUE,
                                   info |-> StoredInfo(loadOnline)])
    /\ loadSave' = NoData
    /\ UNCHANGED <<csvData, error, isLoading, upload, restorePc, viewVars, stored, storedInfo,
                   countVars,
                   lastChange, download, netVars>>

(***************************************************************************)
(* useCsvPersistence: the requests complete in the order issued.           *)
(***************************************************************************)
\* CompleteRequest with a saveData that lets the exception of db.put
\* through: the catch of the caller reports it (part_001:169-172)
CompleteRequestThrowing(ok) ==
    /\ pending # <<>>
    /\ pending' = Tail(pending)
    /\ stored' = IF ~ok THEN stored
                 ELSE IF Head(pending).op = "put" THEN Head(pending).data
                 ELSE NoData
    /\ storedInfo' = IF ~ok THEN storedInfo
                     ELSE IF Head(pending).op = "put" THEN Head(pending).info
                     ELSE NoData
    /\ isLoading' = IF Head(pending).load THEN FALSE ELSE isLoading
    /\ error' = IF ok THEN error ELSE "Failed to save data. Your changes may not persist."
    /\ UNCHANGED <<csvData, upload, restorePc, loadSave, viewVars, countVars,
                   lastChange, download, netVars>>

\* DataTable.tsx:407-413 and 436-441: db.put / db.delete succeeds or
\* throws; the exception is caught and logged.  After its saveData
\* handleDataLoaded runs to its end (part_001:157-178) and clears the
\* loading flag.
CompleteRequest(ok) ==
    /\ pending # <<>>
    /\ pending' = Tail(pending)
    /\ stored' = IF ~ok THEN stored
                 ELSE IF Head(pending).op = "put" THEN Head(pending).data
                 ELSE NoData
    /\ storedInfo' = IF ~ok THEN storedInfo
                     ELSE IF Head(pending).op = "put" THEN Head(pending).info
                     ELSE NoData
    /\ isLoading' = IF Head(pending).load THEN FALSE ELSE isLoading
    /\ UNCHANGED <<csvData, error, upload, restorePc, loadSave, viewVars, countVars,
                   lastChange, download, netVars>>

(***************************************************************************)
(* CsvManager.                                                             *)
(***************************************************************************)
\* The page is reloaded: the memory of the tab is gone, the requests
\* already handed to IndexedDB still complete (nothing waits for them any
\* more), and restoreData starts.
Reload ==
    /\ restorePc = "done"
    /\ csvData' = NoData
    /\ error' = Null
    /\ isLoading' = TRUE
    /\ upload' = NoData
    /\ restorePc' = "check"
    /\ loadSave' = NoData
    /\ pending' = [i \in 1..Len(pending) |-> [pending[i] EXCEPT !.load = FALSE]]
    /\ MountTable
    /\ lastChange' = "none"
    /\ UNCHANGED <<stored, storedInfo, countVars, download, netVars>>

\* DataTable.tsx:422, with the clock moving in whole minutes
ageInMinutes == (now - storedInfo.timestamp) \div (1000 * 60)

\* DataTable.tsx:420-423, loadData finds an entry and takes it for expired
isExpired == stored # NoData /\ ~storedInfo.online /\ ageInMinutes > EXPIRY_MINUTES

\* DataTable.tsx:416-433, what loadData returns: db.get succeeds or throws,
\* and the exception is caught and answered by null
loadData(ok) == IF ok /\ ~isExpired THEN stored ELSE NoData

\* DataTable.tsx:423-426, what loadData leaves in the store: the expired
\* entry is deleted
loadDataStore(ok) ==
    /\ stored' = IF ok /\ isExpired THEN NoData ELSE stored
    /\ storedInfo' = IF ok /\ isExpired THEN NoData ELSE storedInfo

\* part_001:73-80, hasStoredData
RestoreCheck(ok) ==
    /\ restorePc = "check"
    /\ restorePc' = IF loadData(ok) = NoData THEN "done" ELSE "load"
    /\ isLoading' = (loadData(ok) # NoData)
    /\ loadDataStore(ok)
    /\ UNCHANGED <<csvData, error, upload, loadSave, viewVars, pending, countVars,
                   lastChange, download, netVars>>

\* part_001:94-127, loadData and setCsvData(persistedData)
RestoreLoad(ok) ==
    /\ restorePc = "load"
    /\ restorePc' = "done"
    /\ IF loadData(ok) # NoData
       THEN /\ csvData' = FromStored(loadData(ok))
            /\ lastChange' = "restore"
       ELSE UNCHANGED <<csvData, lastChange>>
    /\ isLoading' = FALSE
    /\ MountTable
    /\ loadDataStore(ok)
    /\ UNCHANGED <<error, upload, loadSave, pending, countVars, download, netVars>>

\* part_001:181-193, the synchronous part and the saveData it issues
handleDataChange(newData) ==
    /\ TableShown
    /\ Len(pending) < MaxPending
    /\ LET updatedData == [csvData EXCEPT !.rows = newData]
       IN  /\ csvData' = updatedData
           /\ pending' = Append(pending, [op |-> "put", data |-> StoredForm(updatedData),
                                       load |-> FALSE, info |-> StoredInfo(isOnline)])
    /\ UNCHANGED <<error, isLoading, restorePc, loadSave, stored, storedInfo>>

\* part_001:214-225; the button is disabled while nothing is modified
\* (DataTable.tsx:161)
\* resetData cloning the working rows instead of the original rows
resetDataFromRows(d) ==
    [d EXCEPT !.rows = JsonClone(d.rows, Ids(d.rows) \cup Ids(d.originalRows))]

\* part_001:216-219, the table handleReset sets
resetData(d) ==
    [d EXCEPT !.rows = JsonClone(d.originalRows, Ids(d.rows) \cup Ids(d.originalRows))]

handleReset ==
    /\ TableShown
    /\ modifiedCells(data, originalData) # {}
    /\ csvData' = resetData(csvData)
    /\ lastChange' = "reset"
    /\ UNCHANGED <<error, isLoading, upload, restorePc, loadSave, viewVars, storeVars,
                   countVars, download, netVars>>

\* part_001:227-237
handleBackToUpload ==
    /\ TableShown
    /\ Len(pending) < MaxPending
    /\ csvData' = NoData
    /\ error' = Null
    /\ pending' = Append(pending, [op |-> "delete", load |-> FALSE])
    /\ MountTable
    /\ lastChange' = "back"
    /\ UNCHANGED <<isLoading, upload, restorePc, loadSave, stored, storedInfo, countVars,
                   download, netVars>>

\* part_001:195-212: the file handed to the browser
handleDownload ==
    /\ TableShown
    /\ download' = [csv |-> unparse(csvData.rows)]
    /\ UNCHANGED <<managerVars, upload, viewVars, storeVars, countVars, lastChange, netVars>>

(***************************************************************************)
(* DataTable.                                                              *)
(***************************************************************************)
\* handleEdit without the safety check of its line 106: newData[-1] is set
\* on the copy, which leaves its rows as they are, and the copy is handed
\* to onDataChange
handleEditUnchecked(rowIndex, field, value) ==
    /\ TableShown
    /\ editsLeft > 0
    /\ LET actualIndex == findIndex(data, view, rowIndex)
       IN  /\ handleDataChange(IF actualIndex = 0 THEN data
                               ELSE editedData(data, actualIndex, field, value,
                                               Ids(data) \cup Ids(originalData)))
           /\ lastChange' = IF loadSave # NoData THEN "early edit" ELSE "edit"
    /\ editsLeft' = editsLeft - 1
    /\ UNCHANGED <<upload, viewVars, loadsLeft, download, netVars>>

\* DataTable.tsx:104-112
handleEdit(rowIndex, field, value) ==
    /\ TableShown
    /\ editsLeft > 0
    /\ LET actualIndex == findIndex(data, view, rowIndex)
       IN  IF actualIndex = 0
           THEN UNCHANGED <<managerVars, storeVars, lastChange>>
           ELSE /\ handleDataChange(editedData(data, actualIndex, field, value,
                                               Ids(data) \cup Ids(originalData)))
                /\ lastChange' = IF loadSave # NoData THEN "early edit" ELSE "edit"
    /\ editsLeft' = editsLeft - 1
    /\ UNCHANGED <<upload, viewVars, loadsLeft, download, netVars>>

\* the search box without the setCurrentPage(1) of its onChange
setSearchKeepsPage(term) ==
    /\ TableShown
    /\ term # searchTerm
    /\ searchTerm' = term
    /\ UNCHANGED <<managerVars, upload, currentPage, sortConfig, storeVars, countVars,
                   lastChange, download, netVars>>

\* DataTable.tsx:183-186
setSearch(term) ==
    /\ TableShown
    /\ term # searchTerm
    /\ searchTerm' = term
    /\ currentPage' = 1
    /\ UNCHANGED <<managerVars, upload, sortConfig, storeVars, countVars, lastChange, download, netVars>>

\* handleSort with a sort that works on the data array itself: the rows of
\* the working table are put in the new order and handed to onDataChange
handleSortInPlace(field) ==
    /\ TableShown
    /\ sortConfig' = [field |-> field,
                      direction |-> IF sortConfig.field = field /\ sortConfig.direction = "asc"
                                    THEN "desc" ELSE "asc"]
    /\ currentPage' = 1
    /\ handleDataChange(sortRows(data, sortConfig'))
    /\ UNCHANGED <<upload, searchTerm, countVars, lastChange, download, netVars>>

\* DataTable.tsx:95-101
handleSort(field) ==
    /\ TableShown
    /\ sortConfig' = [field |-> field,
                      direction |-> IF sortConfig.field = field /\ sortConfig.direction = "asc"
                                    THEN "desc" ELSE "asc"]
    /\ currentPage' = 1
    /\ UNCHANGED <<managerVars, upload, searchTerm, storeVars, countVars, lastChange, download, netVars>>

\* DataTable.tsx:257 and 265-301: the buttons exist while totalPages > 1
PreviousPage ==
    /\ TableShown
    /\ totalPages(view) > 1
    /\ currentPage # 1
    /\ currentPage' = Max(1, currentPage - 1)
    /\ UNCHANGED <<managerVars, upload, searchTerm, sortConfig, storeVars, countVars, lastChange, download, netVars>>

NextPage ==
    /\ TableShown
    /\ totalPages(view) > 1
    /\ currentPage # totalPages(view)
    /\ currentPage' = Min(totalPages(view), currentPage + 1)
    /\ UNCHANGED <<managerVars, upload, searchTerm, sortConfig, storeVars, countVars, lastChange, download, netVars>>

GotoPage(i) ==
    /\ TableShown
    /\ totalPages(view) > 1
    /\ i \in 0..(Min(3, totalPages(view)) - 1)
    /\ LET p == i + Max(1, currentPage - 1)
       IN  /\ p <= totalPages(view)
           /\ currentPage' = p
    /\ UNCHANGED <<managerVars, upload, searchTerm, sortConfig, storeVars, countVars, lastChange, download, netVars>>

\* the columns the table shows a header and a cell for
Columns == {headers(data)[k] : k \in 1..Len(headers(data))}

\* DataTable.tsx:217-231: the cell of a row of the displayed page commits
\* its value, with the index of the row within the page
Edit ==
    \E rowIndex \in EditPositions, value \in EditValues :
        \E field \in (IF TableShown THEN Columns ELSE {}) :
            /\ rowIndex \in 1..Len(page)
            /\ handleEdit(rowIndex, field, value)

Sort == \E field \in (IF TableShown THEN Columns ELSE {}) : handleSort(field)

\* Every file of Files fits on one page, so the page buttons are never
\* rendered in a behaviour of Spec (OnePage below).
Next ==
    \/ \E file \in Files : onDrop(file)
    \/ processFile
    \/ IssueLoadSave
    \/ \E ok \in BOOLEAN : CompleteRequest(ok)
    \/ Reload
    \/ \E ok \in BOOLEAN : RestoreCheck(ok)
    \/ \E ok \in BOOLEAN : RestoreLoad(ok)
    \/ handleReset
    \/ handleBackToUpload
    \/ Edit
    \/ \E term \in SearchTerms : setSearch(term)
    \/ Sort

Spec == Init /\ [][Next]_vars

OnePage == TableShown => totalPages(view) <= 1

(***************************************************************************)
(* The application over a store that does not fail: every request to       *)
(* IndexedDB succeeds.                                                     *)
(***************************************************************************)
NextReliable ==
    \/ \E file \in Files : onDrop(file)
    \/ processFile
    \/ IssueLoadSave
    \/ CompleteRequest(TRUE)
    \/ Reload
    \/ RestoreCheck(TRUE)
    \/ RestoreLoad(TRUE)
    \/ handleReset
    \/ handleBackToUpload
    \/ Edit
    \/ \E term \in SearchTerms : setSearch(term)
    \/ Sort

SpecReliable == Init /\ [][NextReliable]_vars

(***************************************************************************)
(* The table of more than one page: the large file has been loaded and     *)
(* saved, and the user works on it.                                        *)
(***************************************************************************)
InitPaged ==
    /\ csvData = processData(FileBig).csvData
    /\ error = Null
    /\ isLoading = FALSE
    /\ upload = NoData
    /\ restorePc = "done"
    /\ loadSave = NoData
    /\ currentPage = 1
    /\ searchTerm = <<>>
    /\ sortConfig = InitialSort
    /\ stored = StoredForm(processData(FileBig).csvData)
    /\ storedInfo = SavedAtStart
    /\ pending = <<>>
    /\ editsLeft = MaxPagedEdits
    /\ loadsLeft = 0
    /\ lastChange = "load"
    /\ download = NoData
    /\ isOnline = TRUE
    /\ now = 0
    /\ loadOnline = TRUE

NextPaged ==
    \/ \E ok \in BOOLEAN : CompleteRequest(ok)
    \/ handleReset
    \/ Edit
    \/ \E term \in PagedSearchTerms : setSearch(term)
    \/ Sort
    \/ PreviousPage
    \/ NextPage
    \/ \E i \in 0..2 : GotoPage(i)

SpecPaged == InitPaged /\ [][NextPaged]_vars

(***************************************************************************)
(* The download: the ragged file has been loaded and saved, and the user   *)
(* works on it and downloads it.  The file downloaded does not feed back   *)
(* into the application, so the other specifications leave it out.         *)
(***************************************************************************)
InitExport ==
    /\ csvData = processData(FileRagged).csvData
    /\ error = Null
    /\ isLoading = FALSE
    /\ upload = NoData
    /\ restorePc = "done"
    /\ loadSave = NoData
    /\ currentPage = 1
    /\ searchTerm = <<>>
    /\ sortConfig = InitialSort
    /\ stored = StoredForm(processData(FileRagged).csvData)
    /\ storedInfo = SavedAtStart
    /\ pending = <<>>
    /\ editsLeft = MaxEdits
    /\ loadsLeft = 0
    /\ lastChange = "load"
    /\ download = NoData
    /\ isOnline = TRUE
    /\ now = 0
    /\ loadOnline = TRUE

NextExport ==
    \/ \E ok \in BOOLEAN : CompleteRequest(ok)
    \/ handleReset
    \/ Edit
    \/ \E term \in SearchTerms : setSearch(term)
    \/ Sort
    \/ handleDownload

SpecExport == InitExport /\ [][NextExport]_vars

(***************************************************************************)
(* handleEdit as a function of its arguments: the small file has been      *)
(* loaded and saved, and handleEdit is called with any row index, also one *)
(* that no cell of the displayed page has.                                 *)
(***************************************************************************)
HandlerPositions == 1..(Len(FileBooks.rows) + 1)

CallHandleEdit ==
    \E rowIndex \in HandlerPositions, value \in EditValues :
        \E field \in (IF TableShown THEN Columns ELSE {}) :
            handleEdit(rowIndex, field, value)

InitHandler ==
    /\ csvData = processData(FileBooks).csvData
    /\ error = Null
    /\ isLoading = FALSE
    /\ upload = NoData
    /\ restorePc = "done"
    /\ loadSave = NoData
    /\ currentPage = 1
    /\ searchTerm = <<>>
    /\ sortConfig = InitialSort
    /\ stored = StoredForm(processData(FileBooks).csvData)
    /\ storedInfo = SavedAtStart
    /\ pending = <<>>
    /\ editsLeft = MaxEdits
    /\ loadsLeft = 0
    /\ lastChange = "load"
    /\ download = NoData
    /\ isOnline = TRUE
    /\ now = 0
    /\ loadOnline = TRUE

NextHandler ==
    \/ \E ok \in BOOLEAN : CompleteRequest(ok)
    \/ handleReset
    \/ CallHandleEdit
    \/ \E term \in SearchTerms : setSearch(term)
    \/ Sort

SpecHandler == InitHandler /\ [][NextHandler]_vars

(***************************************************************************)
(* Properties.                                                             *)
(***************************************************************************)
\* the index in the working table of a row object, 0 when it is not there
IndexOf(rows, row) ==
    IF \E i \in 1..Len(rows) : rows[i].id = row.id
    THEN CHOOSE i \in 1..Len(rows) : rows[i].id = row.id
    ELSE 0

\* a value with an absent one taken as the empty string
OrEmpty(v) == IF v = Undefined THEN <<>> ELSE v

\* C1: whenever a table is loaded, the working table and the original
\* snapshot have the same number of rows.
C1_SameRowCount == TableShown => Len(data) = Len(originalData)

\* a restored table that carries an edit, with a save completed before
C1_Witness ==
    /\ TableShown
    /\ lastChange = "restore"
    /\ modifiedCells(data, originalData) # {}

\* C2: while a table stays loaded the original snapshot is the same rows
\* with the same values, step after step, and no row object of the working
\* table is a row object of the snapshot.
C2_OriginalFixed ==
    /\ [](TableShown => Ids(data) \cap Ids(originalData) = {})
    /\ [][(TableShown /\ TableShown') => csvData'.originalRows = csvData.originalRows]_vars

\* a table that was edited and then reset
C2_Witness ==
    /\ TableShown
    /\ lastChange = "reset"
    /\ editsLeft < MaxEdits

\* the effect C3 states for an edit of `field` to `value`
OneCellChanged(field, value) ==
    \E k \in 1..Len(data) :
        /\ Len(csvData'.rows) = Len(data)
        /\ \A i \in 1..Len(data) : i # k => csvData'.rows[i] = data[i]
        /\ Get(csvData'.rows[k].rec, field) = value
        /\ \A g \in (KeySet(data[k].rec) \cup KeySet(csvData'.rows[k].rec)) \ {field} :
              Get(csvData'.rows[k].rec, g) = Get(data[k].rec, g)

\* C3: a committed edit leaves every row but one the same record, in the
\* same place, and in that one row changes no field but the edited one.
C3_EditOneCell ==
    [][\A rowIndex \in EditPositions, value \in EditValues, field \in {"id", "title"} :
          (TableShown /\ handleEdit(rowIndex, field, value)) => OneCellChanged(field, value)]_vars

\* an edit has been committed and the table shows a modified cell
C3_Witness ==
    /\ TableShown
    /\ lastChange = "edit"
    /\ modifiedCells(data, originalData) # {}

\* C4 (as claimed): an edit committed from position rowIndex of the
\* displayed page changes the working-table row displayed there, and no
\* other row.
C4_EditsDisplayedRow ==
    [][\A rowIndex \in EditPositions, value \in EditValues, field \in {"id", "title"} :
          (TableShown /\ handleEdit(rowIndex, field, value)) =>
              LET shown == IndexOf(data, page[rowIndex])
              IN  /\ Get(csvData'.rows[shown].rec, field) = value
                  /\ \A i \in 1..Len(data) : i # shown => csvData'.rows[i] = data[i]]_vars

\* C5: a reset makes the working table equal field for field to the
\* original snapshot, leaves no modified cell, and a second reset would
\* give the same table again.
C5_ResetRestores ==
    [][handleReset =>
          /\ Recs(csvData'.rows) = Recs(csvData'.originalRows)
          /\ modifiedCells(csvData'.rows, csvData'.originalRows) = {}
          /\ StoredForm(resetData(csvData')) = StoredForm(csvData')]_vars

\* a reset has happened after the two edits
C5_Witness ==
    /\ TableShown
    /\ lastChange = "reset"
    /\ editsLeft = 0

\* the cells C6 describes: every (row, field) whose working value differs
\* from the original value, absent values taken as empty
DifferingCells ==
    {c \in [rowIndex : 1..Len(data), field : {"id", "title"},
            originalValue : {Get(originalData[i].rec, f) : i \in 1..Len(originalData), f \in {"id", "title"}},
            newValue : {Get(data[i].rec, f) : i \in 1..Len(data), f \in {"id", "title"}}] :
        /\ c.originalValue = Get(originalData[c.rowIndex].rec, c.field)
        /\ c.newValue = Get(data[c.rowIndex].rec, c.field)
        /\ OrEmpty(c.newValue) # OrEmpty(c.originalValue)}

\* C6: the set of modified cells is exactly the set of (row, field) whose
\* working value differs from the original value, with both values.
C6_ModifiedCellsExact ==
    TableShown => modifiedCells(data, originalData) = DifferingCells

\* a modified table was saved, and a later edit put the original value back
C6_Witness ==
    /\ TableShown
    /\ lastChange = "edit"
    /\ modifiedCells(data, originalData) = {}
    /\ stored # NoData
    /\ modifiedCells(NewRows(stored.rows, {}), NewRows(stored.originalRows, {})) # {}

\* C7 (as claimed): a displayed cell is flagged modified exactly when the
\* row it shows is modified in that field.
C7_FlagMatchesShownRow ==
    TableShown =>
        \A rowIndex \in 1..Len(page), field \in Columns :
            isCellModified(data, originalData, view, rowIndex, field)
                <=> \E cell \in modifiedCells(data, originalData) :
                        /\ cell.rowIndex = IndexOf(data, page[rowIndex])
                        /\ cell.field = field

\* the term occurs in the value at some offset, letter case apart
OccursIn(term, value) ==
    \E off \in 0..(Len(value) - Len(term)) :
        \A j \in 1..Len(term) : LowerChar(value[off + j]) = LowerChar(term[j])

\* C8: the filtered result is the rows with a field that contains the
\* search term, letter case apart, in working-table order; the empty term
\* keeps every row.
C8_FilterExact ==
    TableShown =>
        /\ filterRows(data, searchTerm) =
              SelectSeq(data, LAMBDA row :
                  \E f \in KeySet(row.rec) : OccursIn(searchTerm, OrEmpty(Get(row.rec, f))))
        /\ filterRows(data, <<>>) = data

\* a search term that keeps some rows and drops others
C8_Witness ==
    /\ TableShown
    /\ searchTerm # <<>>
    /\ Len(filterRows(data, searchTerm)) > 0
    /\ Len(filterRows(data, searchTerm)) < Len(data)

\* the whole string is a decimal number
IsNumber(s) == s # <<>> /\ \A i \in 1..Len(s) : s[i] \in DigitChars

\* the comparison C9 states
ClaimedCompare(a, b, cfg) ==
    LET aValue == OrEmpty(Get(a.rec, cfg.field))
        bValue == OrEmpty(Get(b.rec, cfg.field))
        asc == IF IsNumber(aValue) /\ IsNumber(bValue)
               THEN Sign(DecVal(aValue) - DecVal(bValue))
               ELSE localeCompare(aValue, bValue)
    IN  IF cfg.direction = "asc" THEN asc ELSE 0 - asc

\* C9 (as claimed): two rows are compared as numbers only if both values
\* are numbers in full, and as strings otherwise.
C9_NumericOnlyIfFullNumbers ==
    (TableShown /\ sortConfig.field # Null) =>
        \A i, j \in 1..Len(data) :
            Sign(compareRows(data[i], data[j], sortConfig))
                = ClaimedCompare(data[i], data[j], sortConfig)

\* C10 (as claimed): the page count is ceil(rows / 50) and at least 1.
C10_PageCountAtLeastOne ==
    TableShown =>
        /\ totalPages(view) >= 1
        /\ totalPages(view) * ITEMS_PER_PAGE >= Len(view)
        /\ (totalPages(view) - 1) * ITEMS_PER_PAGE < Max(1, Len(view))

\* the rows of a list at the 0-based indices from..(to - 1) that exist
RowsAt(rows, from, to) ==
    LET n == Max(0, Min(to, Len(rows)) - from)
    IN  [i \in 1..n |-> rows[from + i]]

\* the page numbers a claim about every page is checked for
PageNumbers == 1..3

\* C11: for every page number p >= 1 the page is exactly the rows of the
\* filtered and sorted list at the 0-based indices (p-1)*50 .. p*50-1 that
\* exist, in that order, and a page beyond the last one is empty; the page
\* on screen is the one of the current page number.
C11_PageIsSlice ==
    TableShown =>
        LET shown == view
        IN  /\ \A p \in PageNumbers :
                  /\ paginatedData(shown, p)
                        = RowsAt(shown, (p - 1) * ITEMS_PER_PAGE, p * ITEMS_PER_PAGE)
                  /\ p > totalPages(shown) => paginatedData(shown, p) = <<>>
            /\ page = paginatedData(shown, currentPage)

\* an edit on the second page took a row out of the filter: the current
\* page lies beyond the last page that is left
C11_Witness ==
    /\ TableShown
    /\ lastChange = "edit"
    /\ totalPages(view) = 1
    /\ currentPage = 2
    /\ page = <<>>

\* the file C12 states: the header line is the original header list, and
\* every row of the working table gives one line, in stored order, with
\* its values in the order of the headers
ClaimedExport(d) ==
    LET line(i) == CsvLine([k \in 1..Len(d.headers) |-> OrEmpty(Get(d.rows[i].rec, d.headers[k]))])
    IN  Join(<<CsvLine([k \in 1..Len(d.headers) |-> <<d.headers[k]>>])>>
               \o [i \in 1..Len(d.rows) |-> line(i)], Newline)

\* C12 (as claimed): a download gives the full working table in its stored
\* row order with the columns in the original header order, whatever the
\* search term, the sort configuration and the page are.
C12_ExportFullTable == [][handleDownload => download'.csv = ClaimedExport(csvData)]_vars

\* a record with a value that holds a character other than white space
HasNonBlankValue(rec) ==
    \E i \in 1..Len(rec) : \E k \in 1..Len(rec[i].value) : rec[i].value[k] \notin SpaceChars

\* C13: a successful load gives a working table made of exactly the input
\* rows with a non-blank value, in input order, a snapshot equal to it
\* field for field and of the same length, and the headers in input order.
C13_LoadKeepsNonBlankRows ==
    [][(processFile /\ csvData' # NoData) =>
          /\ Recs(csvData'.rows) = SelectSeq(upload.rows, HasNonBlankValue)
          /\ Recs(csvData'.originalRows) = Recs(csvData'.rows)
          /\ Len(csvData'.originalRows) = Len(csvData'.rows)
          /\ csvData'.headers = upload.headers]_vars

\* the file with a blank row has just been loaded: the table is shorter
\* than the file
C13_Witness ==
    /\ TableShown
    /\ lastChange = "load"
    /\ Len(data) > 0
    /\ Len(data) < Len(FileBooks.rows)

\* the end of a failed load as C14 states it: a message is reported, no
\* table is set and the loading flag is clear
FailureReported ==
    /\ error' # Null
    /\ csvData' = NoData
    /\ ~isLoading'

\* C14 (as claimed): when a load fails (no headers, no data rows, blank
\* rows only, a parse error, a file that is no CSV file, a file over 100MB)
\* an error message is reported, no table is set and the loading flag is
\* cleared: the user stays at the upload step.
C14_FailedLoadReported ==
    [][/\ \A file \in FailingFiles :
             onDrop(file) => (upload' = file \/ FailureReported)
       /\ (processFile /\ upload \in FailingFiles) => FailureReported]_vars

\* C15: a save or a clear that fails, like one that succeeds, changes no
\* row in memory and raises no error, so the table after an edit is the
\* same either way; a load that fails shows no error either; and whatever
\* failed before, an edit of a displayed row and a reset of a modified
\* table still apply.
C15_FailuresLeaveEditing ==
    /\ [][\A ok \in BOOLEAN :
            CompleteRequest(ok) =>
                /\ csvData' = csvData
                /\ error' = error
                /\ <<currentPage, searchTerm, sortConfig>>' = <<currentPage, searchTerm, sortConfig>>]_vars
    /\ [][(RestoreCheck(FALSE) \/ RestoreLoad(FALSE)) => (csvData' = csvData /\ error' = error)]_vars
    /\ [][\A rowIndex \in EditPositions, value \in EditValues, field \in {"id", "title"} :
            (TableShown /\ handleEdit(rowIndex, field, value) /\ findIndex(data, view, rowIndex) # 0)
                => /\ Get(csvData'.rows[findIndex(data, view, rowIndex)].rec, field) = value
                   /\ error' = error]_vars
    /\ [][handleReset =>
            /\ modifiedCells(csvData'.rows, csvData'.originalRows) = {}
            /\ error' = error]_vars

\* two edits have applied although no save ever succeeded: the save of the
\* load and the save of each edit failed
C15_Witness ==
    /\ TableShown
    /\ lastChange = "edit"
    /\ editsLeft = 0
    /\ stored = NoData
    /\ pending = <<>>
    /\ loadSave = NoData
    /\ Cardinality(modifiedCells(data, originalData)) = 2

\* C16 (as claimed): whenever a save of the working table fails, on load
\* or on edit, the user is shown a warning that the changes may not
\* survive a reload.
C16_FailedSaveWarns ==
    [][(CompleteRequest(FALSE) /\ Head(pending).op = "put") => error' # Null]_vars

\* a change of the search term, of the sort or of the page
ViewChange ==
    \/ \E term \in PagedSearchTerms : setSearch(term)
    \/ \E field \in {"id", "title"} : handleSort(field)
    \/ PreviousPage
    \/ NextPage
    \/ \E i \in 0..2 : GotoPage(i)

\* C17: changing the search term, the sort field or direction, or the page
\* leaves the working table (values and order), the original snapshot and
\* the persisted table as they are and issues no save request.
C17_ViewChangeKeepsData ==
    [][\/ /\ csvData' = csvData
          /\ stored' = stored
          /\ pending' = pending
          /\ loadSave' = loadSave
       \/ ~(viewVars' # viewVars /\ TableShown /\ ViewChange)]_vars

\* the second page of a sorted and filtered table that holds an edit whose
\* save is still pending
C17_Witness ==
    /\ TableShown
    /\ currentPage = 2
    /\ sortConfig.field # Null
    /\ searchTerm # <<>>
    /\ pending # <<>>
    /\ modifiedCells(data, originalData) # {}

\* C18: an edit whose row index resolves to no row of the working table
\* changes nothing: the working table, the snapshot, the store and the
\* requests stay as they are and no error is raised.
C18_UnresolvedEditNoOp ==
    [][\A rowIndex \in HandlerPositions, value \in EditValues, field \in {"id", "title"} :
          (TableShown /\ findIndex(data, view, rowIndex) = 0 /\ handleEdit(rowIndex, field, value)) =>
              /\ csvData' = csvData
              /\ pending' = pending
              /\ stored' = stored
              /\ error' = error]_vars

\* handleEdit has been called twice with an index that resolved to no row
C18_Witness ==
    /\ TableShown
    /\ editsLeft = 0
    /\ lastChange = "load"
    /\ pending = <<>>

\* nothing is left to be saved: no request is pending and the saveData of
\* handleDataLoaded has been issued
SavesDone == pending = <<>> /\ loadSave = NoData

\* C19 (as claimed): when an edit is committed after a load has shown the
\* table and before the delayed save of the load is issued, then once every
\* issued save has completed the persisted table holds the edited rows.
C19_EarlyEditPersisted ==
    (TableShown /\ lastChange = "early edit" /\ SavesDone) =>
        (stored # NoData /\ stored.rows = Recs(data))

\* C20 (as claimed): after a reset, once no save is pending, the rows of the
\* persisted table equal the working table, which equals the snapshot.
C20_ResetPersisted ==
    (TableShown /\ lastChange = "reset" /\ SavesDone) =>
        /\ Recs(data) = Recs(originalData)
        /\ stored # NoData
        /\ stored.rows = Recs(data)

\* C21 (as claimed): after Back to Upload, once every pending step has
\* completed, no table is in memory and the store is empty, also when the
\* button is clicked while the save of a file just loaded is still to come.
C21_BackClearsStore ==
    (lastChange = "back" /\ SavesDone) => (csvData = NoData /\ stored = NoData)

\* C22 (as claimed): in every state that shows the table the current page
\* number is between 1 and max(1, total pages), and the displayed page is not
\* empty while the filtered result is non-empty, also after an edit or a reset
\* that changes which rows match the search term.
C22_PageInRange ==
    TableShown =>
        LET shown == view
        IN  /\ 1 <= currentPage
            /\ currentPage <= Max(1, totalPages(shown))
            /\ (Len(shown) > 0 => Len(paginatedData(shown, currentPage)) > 0)

(***************************************************************************)
(* The expiry of the stored entry: the network comes and goes, and the     *)
(* clock moves, while a file is loaded, edited, cleared and restored over  *)
(* a store that does not fail.                                             *)
(***************************************************************************)
MaxTicks == 3
TickMinutes == 5

\* DataTable.tsx:388-399, the online and offline events of the window
handleOnline ==
    /\ ~isOnline
    /\ isOnline' = TRUE
    /\ UNCHANGED <<managerVars, upload, viewVars, storeVars, countVars, lastChange, download,
                   now, loadOnline>>

handleOffline ==
    /\ isOnline
    /\ isOnline' = FALSE
    /\ UNCHANGED <<managerVars, upload, viewVars, storeVars, countVars, lastChange, download,
                   now, loadOnline>>

\* Date.now() of DataTable.tsx:404 and 422: time passes
Tick ==
    /\ now < MaxTicks * TickMinutes * 60 * 1000
    /\ now' = now + TickMinutes * 60 * 1000
    /\ UNCHANGED <<managerVars, upload, viewVars, storeVars, countVars, lastChange, download,
                   isOnline, loadOnline>>

NextExpiry ==
    \/ onDrop(FileBooks)
    \/ processFile
    \/ IssueLoadSave
    \/ CompleteRequest(TRUE)
    \/ Reload
    \/ RestoreCheck(TRUE)
    \/ RestoreLoad(TRUE)
    \/ handleBackToUpload
    \/ Edit
    \/ handleOnline
    \/ handleOffline
    \/ Tick

SpecExpiry == Init /\ [][NextExpiry]_vars

\* the entry exists, its saveData was called while offline, and it is more
\* than 10 minutes old
ExpiredAsClaimed ==
    stored # NoData /\ ~storedInfo.savedOnline /\ ageInMinutes > EXPIRY_MINUTES

\* C23 (as claimed): a load of the store (hasStoredData or loadData of
\* restoreData) answers absent and deletes the entry exactly when an entry
\* exists, was saved while offline and is more than 10 minutes old; in any
\* other case the entry stays, and the load answers it as the latest
\* completed save stored it (or absent when there is none).
C23_LoadExpiresOfflineSaves ==
    [][/\ (restorePc = "check" /\ restorePc' # "check") =>
            IF ExpiredAsClaimed
            THEN restorePc' = "done" /\ stored' = NoData
            ELSE /\ stored' = stored
                 /\ (restorePc' = "load") = (stored # NoData)
       /\ (restorePc = "load" /\ restorePc' = "done") =>
            IF ExpiredAsClaimed
            THEN csvData' = NoData /\ stored' = NoData
            ELSE /\ stored' = stored
                 /\ csvData' = IF stored = NoData THEN NoData ELSE FromStored(stored)]_vars

(***************************************************************************)
(* The load while the page stays open.  The steps of processFile are       *)
(* callbacks of timers and of the file reader, which the browser runs: a   *)
(* load that has started is carried on.                                    *)
(***************************************************************************)
NextLoad ==
    \/ \E file \in Files : onDrop(file)
    \/ processFile
    \/ IssueLoadSave
    \/ \E ok \in BOOLEAN : CompleteRequest(ok)
    \/ \E ok \in BOOLEAN : RestoreCheck(ok)
    \/ handleReset
    \/ handleBackToUpload
    \/ Edit
    \/ \E term \in SearchTerms : setSearch(term)
    \/ Sort

SpecLoad == Init /\ [][NextLoad]_vars /\ WF_vars(processFile)

\* the table of the file is handed to onDataLoaded, once: handleDataLoaded
\* shows it and has its one saveData to come; no message, flag clear
LoadSucceeded(file) ==
    /\ csvData' # NoData
    /\ file.readable
    /\ processData(file).error = Null
    /\ csvData' = processData(file).csvData
    /\ loadSave' = StoredForm(csvData')
    /\ lastChange' = "load"
    /\ error' = Null
    /\ ~isLoading'

\* a message is reported, onDataLoaded is not called; flag clear
LoadFailed ==
    /\ error' # Null
    /\ csvData' = csvData
    /\ loadSave' = loadSave
    /\ lastChange' = lastChange
    /\ ~isLoading'

\* C24: every load that has started ends, and ends in exactly one of two
\* ways: onDataLoaded is called once with the table of the file and the
\* loading flag is clear, or an error message is reported and the loading
\* flag is clear.
C24_LoadEnds ==
    /\ [][(upload # NoData /\ upload' = NoData) =>
              (LoadSucceeded(upload) # LoadFailed)]_vars
    /\ (upload # NoData) ~> (upload = NoData /\ ~isLoading)

\* a load that has started has ended for want of data rows
C24_Witness ==
    /\ upload = NoData
    /\ loadsLeft < MaxLoads
    /\ error = "CSV has no data rows."
    /\ ~isLoading
    /\ ~TableShown

\* C25: a click on a column header sets the sort field to that column, with
\* direction descending exactly when that column was the sort field with
\* direction ascending, and ascending otherwise; every header click and
\* every change of the search term sets the current page to 1.
C25_SortToggleAndPageOne ==
    [][/\ \A field \in (IF TableShown THEN Columns ELSE {}) :
             handleSort(field) =>
                 /\ sortConfig'.field = field
                 /\ (sortConfig'.direction = "desc") =
                        (sortConfig.field = field /\ sortConfig.direction = "asc")
                 /\ sortConfig'.direction \in {"asc", "desc"}
                 /\ currentPage' = 1
       /\ (searchTerm' # searchTerm /\ TableShown /\ csvData' = csvData) =>
              currentPage' = 1]_vars

\* on page 2 of the large table a header was clicked for the second time:
\* the direction is descending and the page is 1 again
C25_Witness ==
    /\ TableShown
    /\ totalPages(view) > 1
    /\ sortConfig.field # Null
    /\ sortConfig.direction = "desc"
    /\ currentPage = 1
    /\ searchTerm = <<>>

========================================================================
